---- MODULE Spec2Model ----
(***************************************************************************)
(* MicroCLI (src/microcli.py, src/utils.py): answer matching, task         *)
(* selection, the progress update and the five commands, each run one      *)
(* atomic step over the persisted progress file.                           *)
(*                                                                         *)
(* Strings are sequences of one-character strings, so that strip() and     *)
(* lower() are computed.  Dates are <<year, month, day>>, the content of   *)
(* the '%Y-%m-%d' text; date differences are computed from day ordinals.   *)
(* Python's None is the empty tuple.  Cyrillic text is transliterated.     *)
(***************************************************************************)
EXTENDS Integers, Sequences, FiniteSets, TLC

VARIABLES tasks, progress_file, locales, run

vars == <<tasks, progress_file, locales, run>>

None == <<>>

Range(s) == {s[i] : i \in 1..Len(s)}

\* ---------------------------------------------------------------- bounds
MaxLen == 2
MaxOptions == 2
MaxCatalog == 2
MaxIds == 2
MaxStreak == 5
NumDays == 4
RunDays == 2

\* --------------------------------------------------------------- strings
Chars == {" ", "a", "A", "b"}

StrsUpTo(n) == UNION {[1..k -> Chars] : k \in 0..n}

IsSpace(c) == c = " "

\* str.lower(), one character
LowerChar(c) ==
  CASE c = "A" -> "a"
    [] c = "B" -> "b"
    [] c = "Q" -> "q"
    [] c = "Y" -> "y"
    [] c = "E" -> "e"
    [] c = "S" -> "s"
    [] c = "J" -> "j"
    [] OTHER -> c

lower(s) == [i \in 1..Len(s) |-> LowerChar(s[i])]

RECURSIVE lstrip(_)
lstrip(s) == IF s # <<>> /\ IsSpace(Head(s)) THEN lstrip(Tail(s)) ELSE s

RECURSIVE rstrip(_)
rstrip(s) ==
  IF s # <<>> /\ IsSpace(s[Len(s)]) THEN rstrip(SubSeq(s, 1, Len(s) - 1)) ELSE s

strip(s) == rstrip(lstrip(s))

normalize_answer(answer) == lower(strip(answer))

\* microcli.py: any option equal to the correct answer accepts, whatever
\* the user typed
check_answer(user_answer, correct_answer, options) ==
  LET user == normalize_answer(user_answer)
      correct == normalize_answer(correct_answer)
  IN IF user = correct THEN TRUE
     ELSE IF options # None
          THEN \E i \in 1..Len(options) : normalize_answer(options[i]) = correct
          ELSE FALSE

\* utils.py: the dict of normalised options; accepts when the user's text is
\* a key and the correct answer is a key
utils_check_answer(user_answer, correct_answer, options) ==
  LET user == normalize_answer(user_answer)
      correct == normalize_answer(correct_answer)
      normalized_options == {normalize_answer(options[i]) : i \in 1..Len(options)}
  IN IF user = correct THEN TRUE
     ELSE IF options # None
          THEN user \in normalized_options /\ correct \in normalized_options
          ELSE FALSE

\* --------------------------------------------- check_answer on its inputs
CorrectInputs == {<<"a">>, <<"A", " ">>, <<"b">>}

OptionPool == {<<"a">>, <<" ", "b">>, <<"A">>}

OptionInputs == UNION {[1..k -> OptionPool] : k \in 0..MaxOptions}

InitCheck ==
  /\ tasks = <<>>
  /\ progress_file = None
  /\ locales = None
  /\ \E u \in StrsUpTo(MaxLen), c \in CorrectInputs, o \in OptionInputs :
       run = [cmd |-> "args", user_answer |-> u, correct_answer |-> c, options |-> o]

CallCheckAnswer ==
  /\ run.cmd = "args"
  /\ run' = [cmd |-> "check_answer",
             user_answer |-> run.user_answer,
             correct_answer |-> run.correct_answer,
             options |-> run.options,
             result |-> check_answer(run.user_answer, run.correct_answer, run.options),
             utils_result |->
               utils_check_answer(run.user_answer, run.correct_answer, run.options)]
  /\ UNCHANGED <<tasks, progress_file, locales>>

NextCheck == CallCheckAnswer

SpecCheck == InitCheck /\ [][NextCheck]_vars

\* C1: with options, a submission equal (after trim + lowercase) to the
\* correct option is accepted and a submission equal to another, incorrect
\* option is rejected, by both versions of check_answer.
C1_OptionMatching ==
  run.cmd = "check_answer" =>
    LET u == normalize_answer(run.user_answer)
        c == normalize_answer(run.correct_answer)
        opts == {normalize_answer(run.options[i]) : i \in 1..Len(run.options)}
    IN /\ (u \in opts /\ u = c) => (run.result /\ run.utils_result)
       /\ (u \in opts /\ u # c) => (~run.result /\ ~run.utils_result)

\* ----------------------------------------------------------------- dates
IsLeap(y) == (y % 4 = 0 /\ y % 100 # 0) \/ y % 400 = 0

DaysInMonth(y, m) ==
  CASE m \in {4, 6, 9, 11} -> 30
    [] m = 2 -> (IF IsLeap(y) THEN 29 ELSE 28)
    [] OTHER -> 31

RECURSIVE DaysBeforeMonth(_, _)
DaysBeforeMonth(y, m) ==
  IF m = 1 THEN 0 ELSE DaysBeforeMonth(y, m - 1) + DaysInMonth(y, m - 1)

DaysBeforeYear(y) ==
  LET p == y - 1 IN 365 * p + (p \div 4) - (p \div 100) + (p \div 400)

\* datetime.strptime(text, '%Y-%m-%d') as the day ordinal of the date
strptime(date) == DaysBeforeYear(date[1]) + DaysBeforeMonth(date[1], date[2]) + date[3]

\* a plausible slip: the difference counts days within the month only
days_between_dayfield(last_date, today) == today[3] - last_date[3]

\* (today_dt - last_dt).days
days_between(last_date, today) == strptime(today) - strptime(last_date)

CalendarDates ==
  {<<y, m, d>> : y \in {2024}, m \in 1..12, d \in 1..31} \ 
  {dt \in {<<y, m, d>> : y \in {2024}, m \in 1..12, d \in 1..31} :
     dt[3] > DaysInMonth(dt[1], dt[2])}

FirstDate == <<2024, 2, 27>>

\* the values get_today() takes: n consecutive days from FirstDate
Dates(n) ==
  {dt \in CalendarDates :
     strptime(dt) - strptime(FirstDate) \in 0..(n - 1)}

\* the days of the runs, and the days update_progress is tried on
RunDates == Dates(RunDays)

UpdateDates == Dates(NumDays)

\* ------------------------------------------------ dicts (insertion order)
dict_keys(d) == [i \in 1..Len(d) |-> d[i].key]

dict_has(d, k) == \E i \in 1..Len(d) : d[i].key = k

dict_get(d, k) == d[CHOOSE i \in 1..Len(d) : d[i].key = k].value

\* d[k] = v: an existing key keeps its place, a new key goes last
dict_set(d, k, v) ==
  IF dict_has(d, k)
  THEN [i \in 1..Len(d) |-> IF d[i].key = k THEN [key |-> k, value |-> v] ELSE d[i]]
  ELSE Append(d, [key |-> k, value |-> v])

RECURSIVE SumValues(_)
SumValues(d) == IF d = <<>> THEN 0 ELSE d[1].value + SumValues(Tail(d))

\* -------------------------------------------------------------- progress
S_Logika == <<"L", "o", "g", "i", "k", "a">>
S_Matematika == <<"M", "a", "t", "e", "m", "a", "t", "i", "k", "a">>
S_Programmirovanie == <<"P", "r", "o", "g">>
S_Yazyki == <<"Y", "a", "z", "y", "k", "i">>
S_ObshchieZnaniya == <<"O", "b", "s", "h", "c", "h", "i", "e">>

\* the record get_progress() returns when progress.json does not exist
fresh_progress ==
  [total_solved |-> 0,
   streak_days |-> 0,
   last_solved_date |-> None,
   completed_tasks |-> <<>>,
   category_stats |-> <<>>]

\* progress_file = None: progress.json does not exist
get_progress(file) == IF file # None THEN file ELSE fresh_progress

\* a reset that leaves a streak of one day
default_progress_streak ==
  [total_solved |-> 0,
   streak_days |-> 1,
   last_solved_date |-> None,
   completed_tasks |-> <<>>,
   category_stats |-> <<>>]

\* the record cmd_reset() saves
default_progress ==
  [total_solved |-> 0,
   streak_days |-> 0,
   last_solved_date |-> None,
   completed_tasks |-> <<>>,
   category_stats |->
     << [key |-> S_Logika, value |-> 0],
        [key |-> S_Matematika, value |-> 0],
        [key |-> S_Programmirovanie, value |-> 0],
        [key |-> S_Yazyki, value |-> 0],
        [key |-> S_ObshchieZnaniya, value |-> 0] >>]

\* a guarded variant: a date that went backwards leaves the streak alone
new_streak_guarded(progress, today) ==
  LET last_date == progress.last_solved_date
  IN IF last_date # today /\ last_date # None
     THEN IF days_between(last_date, today) = 1 THEN progress.streak_days + 1
          ELSE IF days_between(last_date, today) > 1 THEN 1
          ELSE progress.streak_days
     ELSE IF last_date = None THEN 1 ELSE progress.streak_days

\* lines 126-140: the streak after a correct solve
new_streak(progress, today) ==
  LET last_date == progress.last_solved_date
  IN IF last_date # today
     THEN IF last_date # None
          THEN IF days_between(last_date, today) = 1
               THEN progress.streak_days + 1
               ELSE 1
          ELSE 1
     ELSE progress.streak_days

\* the counter set to 1 instead of incremented
new_category_stats_overwrite(stats, cat) == dict_set(stats, cat, 1)

\* lines 146-150: the category counter after a correct solve
new_category_stats(stats, cat) ==
  LET seeded == IF ~dict_has(stats, cat) THEN dict_set(stats, cat, 0) ELSE stats
  IN dict_set(seeded, cat, dict_get(seeded, cat) + 1)

\* a variant that returns early on a second solve of the same day
update_progress_once_a_day(progress, task, today) ==
  IF progress.last_solved_date = today THEN progress
  ELSE [total_solved |-> progress.total_solved + 1,
        streak_days |-> new_streak(progress, today),
        last_solved_date |-> today,
        completed_tasks |-> dict_set(progress.completed_tasks, task.id, today),
        category_stats |-> new_category_stats(progress.category_stats, task.category)]

update_progress(progress, task, today) ==
  [total_solved |-> progress.total_solved + 1,
   streak_days |-> new_streak(progress, today),
   last_solved_date |-> today,
   completed_tasks |-> dict_set(progress.completed_tasks, task.id, today),
   category_stats |-> new_category_stats(progress.category_stats, task.category)]

\* ------------------------------------------------------------- selection
\* the values random.choice may return, or None when nothing is available
get_random_task_unfiltered(completed_ids, catalog) ==
  IF catalog = <<>> THEN {None} ELSE Range(catalog)

get_random_task(completed_ids, catalog) ==
  LET available == SelectSeq(catalog, LAMBDA t : t.id \notin Range(completed_ids))
  IN IF available = <<>> THEN {None} ELSE Range(available)

utils_get_random_task(completed_ids, catalog) ==
  LET available == SelectSeq(catalog, LAMBDA t : t.id \notin Range(completed_ids))
  IN IF available = <<>> THEN {None} ELSE Range(available)

\* ------------------------------------------------------- tasks.json inputs
T1 == [id |-> <<"t", "1">>, category |-> S_Logika, answer |-> <<"a">>, options |-> None]

T2 == [id |-> <<"t", "2">>, category |-> S_Logika, answer |-> <<"b">>,
       options |-> << <<"a">>, <<"b">> >>]

T3 == [id |-> <<"t", "3">>, category |-> S_Matematika, answer |-> <<"a">>,
       options |-> << <<"A", " ">>, <<"b">> >>]

T4 == [id |-> <<"t", "4">>, category |-> S_Yazyki, answer |-> <<"b">>, options |-> None]

TaskPool == <<T1, T2, T3>>

\* catalogs with unique ids: up to n tasks of the pool, in the pool's order
Catalogs(n) ==
  LET picks == {f \in UNION {[1..k -> 1..Len(TaskPool)] : k \in 0..n} :
                  \A a, b \in 1..Len(f) : a < b => f[a] < f[b]}
  IN {[i \in 1..Len(f) |-> TaskPool[f[i]]] : f \in picks}

IdPool == {T1.id, T2.id, T3.id, T4.id}

IdLists(n) ==
  {f \in UNION {[1..k -> IdPool] : k \in 0..n} :
     \A a, b \in 1..Len(f) : a # b => f[a] # f[b]}

\* ------------------------------------------ get_random_task on its inputs
InitSelect ==
  /\ tasks \in Catalogs(MaxCatalog)
  /\ progress_file = None
  /\ locales = None
  /\ \E ids \in IdLists(MaxIds) : run = [cmd |-> "args", completed_ids |-> ids]

CallGetRandomTask ==
  /\ run.cmd = "args"
  /\ \E r \in get_random_task(run.completed_ids, tasks),
        u \in utils_get_random_task(run.completed_ids, tasks) :
       run' = [cmd |-> "get_random_task",
               completed_ids |-> run.completed_ids,
               result |-> r,
               utils_result |-> u]
  /\ UNCHANGED <<tasks, progress_file, locales>>

NextSelect == CallGetRandomTask

SpecSelect == InitSelect /\ [][NextSelect]_vars

\* C2: get_random_task (both versions) never returns a task whose id is in
\* the completed ids, and returns None exactly when every catalog task's id
\* is in them.
C2_Selection ==
  run.cmd = "get_random_task" =>
    LET done == Range(run.completed_ids)
        all_done == \A i \in 1..Len(tasks) : tasks[i].id \in done
    IN /\ run.result # None => run.result.id \notin done
       /\ run.utils_result # None => run.utils_result.id \notin done
       /\ (run.result = None) <=> all_done
       /\ (run.utils_result = None) <=> all_done

\* a catalog of tasks, some completed and some not, and one of the latter chosen
C2_Witness ==
  /\ run.cmd = "get_random_task"
  /\ run.result # None
  /\ \E i \in 1..Len(tasks) : tasks[i].id \in Range(run.completed_ids)

\* ------------------------------------------- update_progress on its inputs
\* the calendar, day by day (used to state the claims and to date histories)
NextDay(date) ==
  IF date[3] < DaysInMonth(date[1], date[2]) THEN <<date[1], date[2], date[3] + 1>>
  ELSE IF date[2] < 12 THEN <<date[1], date[2] + 1, 1>>
  ELSE <<date[1] + 1, 1, 1>>

PrevDay(date) ==
  IF date[3] > 1 THEN <<date[1], date[2], date[3] - 1>>
  ELSE IF date[2] > 1 THEN <<date[1], date[2] - 1, DaysInMonth(date[1], date[2] - 1)>>
  ELSE <<date[1] - 1, 12, 31>>

RECURSIVE DayMinus(_, _)
DayMinus(date, k) == IF k = 0 THEN date ELSE DayMinus(PrevDay(date), k - 1)

Earlier(a, b) ==
  \/ a[1] < b[1]
  \/ a[1] = b[1] /\ a[2] < b[2]
  \/ a[1] = b[1] /\ a[2] = b[2] /\ a[3] < b[3]

DigitChars == <<"1", "2", "3", "4", "5", "6", "7", "8", "9">>

\* the i-th task of an earlier catalog
HistTask(i) ==
  [id |-> <<"h", DigitChars[i]>>,
   category |-> IF i % 2 = 1 THEN S_Logika ELSE S_Matematika,
   answer |-> <<"a">>,
   options |-> None]

\* s solves on the s consecutive days ending on date d, after (older = 1) one
\* solve three days before the first of them
StreakHistory(s, d, older) ==
  (IF older = 1
   THEN << [task |-> HistTask(s + 1), date |-> DayMinus(d, s + 2)] >>
   ELSE <<>>)
  \o [i \in 1..s |-> [task |-> HistTask(i), date |-> DayMinus(d, s - i)]]

RECURSIVE Replay(_, _)
Replay(progress, solves) ==
  IF solves = <<>> THEN progress
  ELSE Replay(update_progress(progress, Head(solves).task, Head(solves).date),
              Tail(solves))

\* progress.json as earlier runs can have left it: absent, reset, or after a
\* history of correct solves
ProgressInputs ==
  {None, default_progress} \cup
  {Replay(start, StreakHistory(s, d, older)) :
     start \in {fresh_progress, default_progress},
     s \in 1..MaxStreak, d \in UpdateDates, older \in {0, 1}}

TaskInputs == {T1, T3, T4, HistTask(1)}

InitUpdate ==
  /\ tasks = <<>>
  /\ locales = None
  /\ progress_file \in ProgressInputs
  /\ \E t \in TaskInputs, d \in UpdateDates :
       run = [cmd |-> "args", task |-> t, today |-> d]

CallUpdateProgress ==
  /\ run.cmd = "args"
  /\ progress_file' = update_progress(get_progress(progress_file), run.task, run.today)
  /\ run' = [cmd |-> "update_progress",
             task |-> run.task,
             today |-> run.today,
             pre |-> get_progress(progress_file)]
  /\ UNCHANGED <<tasks, locales>>

NextUpdate == CallUpdateProgress

SpecUpdate == InitUpdate /\ [][NextUpdate]_vars

\* C3: after update_progress dated today, with prior last_solved_date d and
\* streak_days s: d the day before today gives s + 1; d two or more days
\* before today gives 1; d absent gives 1; d = today leaves s; and
\* last_solved_date is today in every case.
C3_Streak ==
  run.cmd = "update_progress" =>
    LET d == run.pre.last_solved_date
        s == run.pre.streak_days
        post == progress_file
    IN /\ post.last_solved_date = run.today
       /\ d = None => post.streak_days = 1
       /\ (d # None /\ d = run.today) => post.streak_days = s
       /\ (d # None /\ NextDay(d) = run.today) => post.streak_days = s + 1
       /\ (d # None /\ Earlier(d, run.today) /\ NextDay(d) # run.today) =>
            post.streak_days = 1

\* a streak of 5 continued across the end of February into 6
C3_Witness ==
  /\ run.cmd = "update_progress"
  /\ run.pre.streak_days = 5
  /\ run.pre.last_solved_date = <<2024, 2, 29>>
  /\ run.today = <<2024, 3, 1>>
  /\ progress_file.streak_days = 6

\* C4: update_progress adds exactly 1 to total_solved, sets
\* completed_tasks[task.id] to today and adds exactly 1 to
\* category_stats[task.category] (from 0 when absent), in every streak
\* branch; every other entry of both mappings is left as it was.
C4_Counters ==
  run.cmd = "update_progress" =>
    LET pre == run.pre
        post == progress_file
        id == run.task.id
        cat == run.task.category
        ids == Range(dict_keys(pre.completed_tasks)) \cup
               Range(dict_keys(post.completed_tasks))
        cats == Range(dict_keys(pre.category_stats)) \cup
                Range(dict_keys(post.category_stats))
    IN /\ post.total_solved = pre.total_solved + 1
       /\ id \in ids /\ dict_get(post.completed_tasks, id) = run.today
       /\ \A k \in ids \ {id} :
            /\ dict_has(pre.completed_tasks, k) /\ dict_has(post.completed_tasks, k)
            /\ dict_get(post.completed_tasks, k) = dict_get(pre.completed_tasks, k)
       /\ cat \in cats
       /\ dict_get(post.category_stats, cat) =
            (IF dict_has(pre.category_stats, cat)
             THEN dict_get(pre.category_stats, cat) ELSE 0) + 1
       /\ \A c \in cats \ {cat} :
            /\ dict_has(pre.category_stats, c) /\ dict_has(post.category_stats, c)
            /\ dict_get(post.category_stats, c) = dict_get(pre.category_stats, c)

\* a second solve on the same day, in a category not counted before
C4_Witness ==
  /\ run.cmd = "update_progress"
  /\ run.pre.last_solved_date = run.today
  /\ run.pre.total_solved >= 2
  /\ ~dict_has(run.pre.category_stats, run.task.category)
  /\ ~dict_has(run.pre.completed_tasks, run.task.id)
  /\ dict_get(progress_file.category_stats, run.task.category) = 1

\* C10 as stated: when today is strictly earlier than last_solved_date,
\* streak_days is left unchanged.
C10_Unchanged ==
  (run.cmd = "update_progress" /\ run.pre.last_solved_date # None
     /\ Earlier(run.today, run.pre.last_solved_date)) =>
    progress_file.streak_days = run.pre.streak_days

\* C10 amended: when today is strictly earlier than last_solved_date,
\* streak_days is reset to 1.
C10_ResetToOne ==
  (run.cmd = "update_progress" /\ run.pre.last_solved_date # None
     /\ Earlier(run.today, run.pre.last_solved_date)) =>
    progress_file.streak_days = 1

\* the clock set back by a day on a streak of 3
C10_Witness ==
  /\ run.cmd = "update_progress"
  /\ run.pre.streak_days = 3
  /\ run.pre.last_solved_date = <<2024, 3, 1>>
  /\ run.today = <<2024, 2, 29>>
  /\ progress_file.streak_days = 1

\* -------------------------------------------------------------- locales
S_quit == <<"q", "u", "i", "t">>
S_reset_confirm == <<"r", "e", "s", "e", "t", "_", "c", "o", "n", "f", "i", "r", "m">>
S_yes == <<"y", "e", "s">>
S_da == <<"d", "a">>
S_vyhod == <<"v", "y", "h", "o", "d">>

Langs == {"ru", "en"}

\* locales/<lang>.json, when the files exist
LocaleFiles ==
  [ru |-> << [key |-> S_quit, value |-> S_vyhod],
             [key |-> S_reset_confirm, value |-> S_da] >>,
   en |-> << [key |-> S_quit, value |-> S_quit],
             [key |-> S_reset_confirm, value |-> S_yes] >>]

\* locales = None: the locale files do not exist
load_locale(lang) == IF locales # None THEN locales[lang] ELSE <<>>

\* _(key, lang): the translation, or the key itself
translate(key, lang) ==
  LET translations == load_locale(lang)
  IN IF dict_has(translations, key) THEN dict_get(translations, key) ELSE key

\* ------------------------------------------------------------ the commands
\* what the user may type at the answer prompt ("j" stands for the
\* Cyrillic short i)
AnswerInputs == {<<"a">>, <<" ", "A">>, <<"b">>, <<"q">>, <<"Q">>, <<"j">>, S_quit}

ConfirmInputs == {S_yes, <<"Y", "E", "S">>, S_da, <<"n", "o">>, S_reset_confirm}

CategoryInputs == {S_Logika, S_Matematika, S_Yazyki}

Some(x) == <<x>>

\* line 197: answer.lower() in ('q', <short i>, _('quit', lang))
is_quit(answer, lang) == lower(answer) \in {<<"q">>, <<"j">>, translate(S_quit, lang)}

\* one finished run: what it printed and whether it saved progress.json
Finish(cmd, lang, category, pre, task, answer, outcome, saved, file) ==
  /\ run' = [cmd |-> cmd, lang |-> lang, category |-> category, pre |-> pre,
             task |-> task, answer |-> answer, outcome |-> outcome, saved |-> saved]
  /\ progress_file' = file
  /\ UNCHANGED <<tasks, locales>>

cmd_today ==
  \E lang \in Langs :
    LET progress == get_progress(progress_file)
        completed_ids == dict_keys(progress.completed_tasks)
    IN IF tasks = <<>>
       THEN Finish("today", lang, None, progress, None, None,
                   "task_database_empty", FALSE, progress_file)
       ELSE \E task \in get_random_task(completed_ids, tasks) :
              IF task = None
              THEN Finish("today", lang, None, progress, None, None,
                          "all_completed", FALSE, progress_file)
              ELSE \E typed \in AnswerInputs :
                     IF is_quit(typed, lang)
                     THEN Finish("today", lang, None, progress, task, Some(typed),
                                 "bye", FALSE, progress_file)
                     ELSE IF check_answer(typed, task.answer, task.options)
                     THEN \E today \in RunDates :
                            Finish("today", lang, None, progress, task, Some(typed),
                                   "correct", TRUE,
                                   update_progress(progress, task, today))
                     ELSE Finish("today", lang, None, progress, task, Some(typed),
                                 "wrong", FALSE, progress_file)

\* line 268 without its filter
category_tasks_unfiltered(catalog, category) == catalog

\* line 268: the catalog's tasks of the requested category
category_tasks(catalog, category) ==
  SelectSeq(catalog, LAMBDA t : t.category = category)

\* lines 274-277 finding no completed id
category_completed_ids_none(progress, cat_tasks) == <<>>

\* lines 274-277: the completed ids that belong to the category's tasks
category_completed_ids(progress, cat_tasks) ==
  SelectSeq(dict_keys(progress.completed_tasks),
            LAMBDA tid : \E i \in 1..Len(cat_tasks) : cat_tasks[i].id = tid)

cmd_category ==
  \E lang \in Langs, category \in CategoryInputs :
    LET progress == get_progress(progress_file)
        cat_tasks == category_tasks(tasks, category)
        completed_ids == category_completed_ids(progress, cat_tasks)
    IN IF cat_tasks = <<>>
       THEN Finish("category", lang, category, progress, None, None,
                   "category_not_found", FALSE, progress_file)
       ELSE \E task \in get_random_task(completed_ids, cat_tasks) :
              IF task = None
              THEN Finish("category", lang, category, progress, None, None,
                          "category_completed", FALSE, progress_file)
              ELSE \E typed \in AnswerInputs :
                     IF check_answer(typed, task.answer, task.options)
                     THEN \E today \in RunDates :
                            Finish("category", lang, category, progress, task,
                                   Some(typed), "correct", TRUE,
                                   update_progress(progress, task, today))
                     ELSE Finish("category", lang, category, progress, task,
                                 Some(typed), "wrong", FALSE, progress_file)

cmd_stats ==
  \E lang \in Langs :
    /\ run' = [cmd |-> "stats", lang |-> lang, category |-> None,
               pre |-> get_progress(progress_file), task |-> None, answer |-> None,
               outcome |-> "statistics", saved |-> FALSE]
    /\ UNCHANGED <<tasks, progress_file, locales>>

cmd_categories ==
  \E lang \in Langs :
    /\ run' = [cmd |-> "categories", lang |-> lang, category |-> None,
               pre |-> None, task |-> None, answer |-> None,
               outcome |-> IF tasks = <<>> THEN "task_database_empty"
                           ELSE "categories_title",
               saved |-> FALSE]
    /\ UNCHANGED <<tasks, progress_file, locales>>

cmd_reset ==
  \E lang \in Langs, confirm \in ConfirmInputs :
    IF lower(confirm) = translate(S_reset_confirm, lang)
    THEN Finish("reset", lang, None, None, None, Some(confirm),
                "progress_reset", TRUE, default_progress)
    ELSE Finish("reset", lang, None, None, None, Some(confirm),
                "cancelled", FALSE, progress_file)

Init ==
  /\ tasks \in Catalogs(MaxCatalog)
  /\ locales \in {None, LocaleFiles}
  /\ progress_file = None
  /\ run = [cmd |-> "none"]

Next == cmd_today \/ cmd_category \/ cmd_stats \/ cmd_categories \/ cmd_reset

Spec == Init /\ [][Next]_vars

\* C5: over every sequence of runs from the fresh state, total_solved is the
\* number of keys of completed_tasks, and a task presented by a today or
\* category run is never one already completed.
C5_SolvedOnce ==
  /\ LET progress == get_progress(progress_file)
     IN progress.total_solved = Cardinality(Range(dict_keys(progress.completed_tasks)))
  /\ (run.cmd \in {"today", "category"} /\ run.task # None) =>
       ~dict_has(run.pre.completed_tasks, run.task.id)

\* a second task solved after an earlier one
C5_Witness ==
  /\ run.cmd \in {"today", "category"}
  /\ run.outcome = "correct"
  /\ run.pre.total_solved = 1
  /\ get_progress(progress_file).total_solved = 2

\* C6: in a today or category run, typing the quit sentinel ends the run
\* early: no verdict, no change of the progress, nothing saved.
C6_QuitIsNoAnswer ==
  (run.cmd \in {"today", "category"} /\ run.answer # None
     /\ is_quit(run.answer[1], run.lang)) =>
    /\ run.outcome = "bye"
    /\ ~run.saved
    /\ get_progress(progress_file) = run.pre

\* C7: a category run for label L reports 'category not found' exactly when
\* no catalog task has category L, 'category exhausted' exactly when some
\* have and all of those are completed, and otherwise presents an
\* uncompleted task of category L; the two no-task outcomes leave the
\* progress as it was.
C7_CategoryOutcomes ==
  run.cmd = "category" =>
    LET of_L == {i \in 1..Len(tasks) : tasks[i].category = run.category}
        all_done == \A i \in of_L : dict_has(run.pre.completed_tasks, tasks[i].id)
        no_task == {"category_not_found", "category_completed"}
    IN /\ (run.outcome = "category_not_found") <=> (of_L = {})
       /\ (run.outcome = "category_completed") <=> (of_L # {} /\ all_done)
       /\ run.outcome \notin no_task =>
            /\ run.task # None
            /\ \E i \in of_L : tasks[i] = run.task
            /\ ~dict_has(run.pre.completed_tasks, run.task.id)
       /\ run.outcome \in no_task =>
            /\ run.task = None
            /\ ~run.saved
            /\ get_progress(progress_file) = run.pre

\* a category whose only task is completed, in a catalog that has more tasks
C7_Witness ==
  /\ run.cmd = "category"
  /\ run.outcome = "category_completed"
  /\ Len(tasks) > Len(run.pre.completed_tasks)

\* C8: over every sequence of runs from the fresh state, the category_stats
\* values add up to total_solved, also after a reset has seeded the five
\* labels at 0.
C8_CategorySum ==
  LET progress == get_progress(progress_file)
  IN SumValues(progress.category_stats) = progress.total_solved

\* two solves after a reset
C8_Witness ==
  /\ progress_file # None
  /\ Len(progress_file.category_stats) = 5
  /\ progress_file.total_solved = 2

\* C9: a confirmed reset saves total_solved 0, streak_days 0, no
\* last_solved_date, an empty completed_tasks and every category_stats
\* value 0, whatever the progress was; a second confirmed reset changes
\* nothing.
C9_Reset ==
  [][(run'.cmd = "reset" /\ run'.outcome = "progress_reset") =>
       /\ run'.saved
       /\ progress_file' # None
       /\ progress_file'.total_solved = 0
       /\ progress_file'.streak_days = 0
       /\ progress_file'.last_solved_date = None
       /\ progress_file'.completed_tasks = <<>>
       /\ \A i \in 1..Len(progress_file'.category_stats) :
            progress_file'.category_stats[i].value = 0
       /\ (run.cmd = "reset" /\ run.outcome = "progress_reset") =>
            progress_file' = progress_file]_vars

\* a confirmed reset
C9_Witness ==
  /\ run.cmd = "reset"
  /\ run.outcome = "progress_reset"
  /\ progress_file = default_progress

====
